---------------------------- MODULE Spec2Model ----------------------------
(***************************************************************************)
(* State-machine model of the three programs of ops-via-sftp:              *)
(*   "par"  fetch_and_delete_files_in_parallel.py  (thread pool, batches)  *)
(*   "seq"  delete_csv_files_via_sftp.py           (sequential, batches)   *)
(*   "val"  sftp-csv-validator.py                  (discover, fetch,       *)
(*          validate, log, database, summary)                              *)
(*   "retry" safe_sftp_operation of sftp-csv-validator.py, run on its own  *)
(*          with every max_retries and every pattern of failing calls.     *)
(* Python strings are sequences of one-character strings, so that          *)
(* endswith, the `in` substring test, os.path.basename and the splitting   *)
(* of the log into lines are computed, not assumed.                        *)
(***************************************************************************)
EXTENDS Integers, Sequences, FiniteSets, TLC

VARIABLES
    prog,       \* which program this run executes
    mainpc,     \* position of the main thread
    closed,     \* sftp.close() has been called
    files,      \* the descriptors returned by the listing(s), in order
    i,          \* main loop variable: `i` of range(0, len(files), BATCH_SIZE) in
                \* "par"/"seq", the number of root directories listed in "val"
    batches,    \* the batches dispatched so far (each a sequence of task indexes)
    task,       \* per descriptor: the state of its task
    remote,     \* the remote store: entries of the directories, which listings raise
    lock,       \* log_lock: 0 when free, else the task holding it
    log,        \* LOG_FILE: the chunks written to it, in file order
    db,         \* rows of the results table of DB_FILE
    localfs,    \* LOCAL_DIRECTORY: local path -> content
    summary,    \* what generate_summary_report computed
    rt          \* the state of the stand-alone safe_sftp_operation run

vars == <<prog, mainpc, closed, files, i, batches, task, remote,
          lock, log, db, localfs, summary, rt>>

----------------------------------------------------------------------------
(* Bounds of the model. *)

\* most .csv files present in REMOTE_DIRECTORY of the two fetch-and-delete programs
MaxFiles == 7
\* largest max_retries argument tried on safe_sftp_operation
MaxRetriesArg == 3
\* BATCH_SIZE (50 in the source), scaled down
BATCH_SIZE == 3
\* MAX_WORKERS (10 in the source), scaled down; kept below BATCH_SIZE so that a
\* batch can hold more files than there are workers
MAX_WORKERS == 2
\* the worker count of the validator's ThreadPoolExecutor(), which is given no
\* max_workers (the library's default, min(32, cpu_count + 4)), scaled down
DefaultWorkers == 2
\* most directories whose listing raises in one run of the validator
MaxFailingDirs == 1

----------------------------------------------------------------------------
(* Python string operations on sequences of characters. *)

\* s[a:b] with 0 <= a, Python slice semantics (b clipped to len(s))
Slice(s, a, b) ==
    LET hi == IF b > Len(s) THEN Len(s) ELSE b
    IN  IF a >= hi THEN << >> ELSE SubSeq(s, a + 1, hi)

\* s.endswith(suf)
EndsWith(s, suf) ==
    /\ Len(suf) <= Len(s)
    /\ SubSeq(s, Len(s) - Len(suf) + 1, Len(s)) = suf

\* sub in s
Contains(s, sub) ==
    \E k \in 0..(Len(s) - Len(sub)) : SubSeq(s, k + 1, k + Len(sub)) = sub

----------------------------------------------------------------------------
(* The remote directory of the two fetch-and-delete programs. *)

FILE_EXTENSION == <<".", "c", "s", "v">>

Digit(k) == CASE k = 1 -> "1" [] k = 2 -> "2" [] k = 3 -> "3" [] k = 4 -> "4"
              [] k = 5 -> "5" [] k = 6 -> "6" [] k = 7 -> "7" [] OTHER -> "9"

\* what sftp.listdir_attr(REMOTE_DIRECTORY) returns: n regular .csv files, then a
\* directory whose name ends in .csv and a regular file that is no .csv
DirEntries(n) ==
    [k \in 1..n |-> [filename |-> <<"f", Digit(k)>> \o FILE_EXTENSION, isdir |-> FALSE]]
    \o << [filename |-> <<"d">> \o FILE_EXTENSION, isdir |-> TRUE],
          [filename |-> <<"n", ".", "t", "x", "t">>, isdir |-> FALSE] >>

\* the list comprehension of list_csv_files; a raising listdir_attr gives []
list_csv_files(listing) ==
    IF listing.raises THEN << >>
    ELSE LET kept == SelectSeq(listing.entries,
                       LAMBDA e : EndsWith(e.filename, FILE_EXTENSION) /\ ~e.isdir)
         IN  [k \in 1..Len(kept) |-> kept[k].filename]

----------------------------------------------------------------------------
(* sftp-csv-validator.py: configuration, remote tree, discovery. *)

\* config.yaml: filter.keyword, filter.file_extension, sftp.root_directories,
\* local.directory
KEYWORD == <<"t", "g">>
CFG_FILE_EXTENSION == <<".", "c", "s", "v">>
ROOT_DIRECTORIES == << <<"/", "a">>, <<"/", "b">> >>
LOCAL_DIRECTORY == <<"d", "l">>

\* os.path.join(a, b) for a relative b and a not ending in "/"
PathJoin(a, b) == a \o <<"/">> \o b

\* os.path.basename(p): what follows the last "/"
RECURSIVE basename(_)
basename(p) ==
    IF p = << >> \/ p[Len(p)] = "/" THEN << >>
    ELSE basename(SubSeq(p, 1, Len(p) - 1)) \o <<p[Len(p)]>>

\* The remote tree.  /a holds two subdirectories and a file without the keyword.
\* The first subdirectory has a name that passes the filter and holds a file
\* whose own name lacks the keyword; /b holds a file named like the one of the
\* second subdirectory of /a and a file with another extension.
File(name) == [filename |-> name, isdir |-> FALSE]
Dir(name)  == [filename |-> name, isdir |-> TRUE]

DirA  == <<"/", "a">>
DirAX == <<"/", "a", "/", "t", "g", "x", ".", "c", "s", "v">>
DirAY == <<"/", "a", "/", "y">>
DirB  == <<"/", "b">>
RemoteDirs == {DirA, DirAX, DirAY, DirB}

TreeEntries(path) ==
    CASE path = DirA  -> << Dir(<<"t", "g", "x", ".", "c", "s", "v">>), Dir(<<"y">>), File(<<"o", ".", "c", "s", "v">>) >>
      [] path = DirAX -> << File(<<"o", ".", "c", "s", "v">>) >>
      [] path = DirAY -> << File(<<"t", "g", "1", ".", "c", "s", "v">>) >>
      [] path = DirB  -> << File(<<"t", "g", "1", ".", "c", "s", "v">>), File(<<"t", "g", ".", "t", "x", "t">>) >>
      [] OTHER        -> << >>

\* the bytes of the remote files: the one of /a/y is blank, the one of /b is
\* the single byte 0xC3, a truncated UTF-8 sequence
RemoteContent(path) ==
    CASE path = PathJoin(DirAX, <<"o", ".", "c", "s", "v">>)           -> <<"1">>
      [] path = PathJoin(DirAY, <<"t", "g", "1", ".", "c", "s", "v">>) -> <<" ">>
      [] path = PathJoin(DirB, <<"t", "g", "1", ".", "c", "s", "v">>)  -> <<"xC3">>
      [] OTHER -> << >>

\* list_files_recursive(sftp, remote_dir).  _recurse(path) appends to file_list;
\* sftp.listdir_attr(path) raises for the directories of remote.failing, before
\* any entry of path is seen, and the except clause of that call of _recurse
\* swallows it.  paramiko.SFTPAttributes.S_ISDIR(entry.st_mode) is read as the
\* directory test on the entry's mode.
\* (variant for C8: a subdirectory whose listing raises ends the walk of its
\* parent, as if the exception were caught around the whole loop only)
RECURSIVE _recurse_stops(_, _, _, _)
_recurse_stops(failing, path, k, file_list) ==
    IF path \in failing \/ k > Len(TreeEntries(path)) THEN file_list
    ELSE LET entry == TreeEntries(path)[k]
             remote_path == PathJoin(path, entry.filename)
         IN  IF entry.isdir
             THEN IF remote_path \in failing THEN file_list
                  ELSE _recurse_stops(failing, path, k + 1,
                                      _recurse_stops(failing, remote_path, 1, file_list))
             ELSE _recurse_stops(failing, path, k + 1,
                      IF EndsWith(remote_path, CFG_FILE_EXTENSION)
                         /\ Contains(remote_path, KEYWORD)
                      THEN Append(file_list, [path |-> remote_path,
                                              filename |-> basename(remote_path)])
                      ELSE file_list)

RECURSIVE _recurse(_, _, _, _)
_recurse(failing, path, k, file_list) ==
    IF path \in failing \/ k > Len(TreeEntries(path)) THEN file_list
    ELSE LET entry == TreeEntries(path)[k]
             remote_path == PathJoin(path, entry.filename)
             after ==
                 IF entry.isdir THEN _recurse(failing, remote_path, 1, file_list)
                 ELSE IF EndsWith(remote_path, CFG_FILE_EXTENSION)
                         /\ Contains(remote_path, KEYWORD)
                      THEN Append(file_list, [path |-> remote_path,
                                              filename |-> basename(remote_path)])
                      ELSE file_list
         IN  _recurse(failing, path, k + 1, after)

list_files_recursive(failing, remote_dir) == _recurse(failing, remote_dir, 1, << >>)

----------------------------------------------------------------------------
(* sftp-csv-validator.py: validation, log lines, summary. *)

IsSpace(c) == c \in {" ", "\n", "\t", "\r"}

\* s.strip()
RECURSIVE Strip(_)
Strip(s) ==
    IF s = << >> THEN s
    ELSE IF IsSpace(s[1]) THEN Strip(Tail(s))
    ELSE IF IsSpace(s[Len(s)]) THEN Strip(SubSeq(s, 1, Len(s) - 1))
    ELSE s

\* validate_csv(csv_content, schema_dict, dialect): (errors, warnings, info)
validate_csv(csv_content) ==
    IF Strip(csv_content) = << >>
    THEN [errors |-> << <<"C", "S", "V", " ", "c", "o", "n", "t", "e", "n", "t", " ", "i", "s", " ", "e", "m", "p", "t", "y">> >>, warnings |-> << >>, info |-> << >>]
    ELSE [errors |-> << >>, warnings |-> << >>, info |-> << <<"C", "S", "V", " ", "r", "e", "a", "d", " ", "s", "u", "c", "c", "e", "s", "s", "f", "u", "l", "l", "y">> >>]

\* json.dumps of a list of strings that need no escaping
RECURSIVE json_items(_)
json_items(l) ==
    IF l = << >> THEN << >>
    ELSE <<"\"">> \o Head(l) \o <<"\"">>
         \o (IF Len(l) > 1 THEN <<",", " ">> ELSE << >>) \o json_items(Tail(l))

json_dumps(l) == <<"[">> \o json_items(l) \o <<"]">>

VALID   == <<"v", "a", "l", "i", "d">>
INVALID == <<"i", "n", "v", "a", "l", "i", "d">>
ERROR   == <<"e", "r", "r", "o", "r">>

\* validation_state = "invalid" if errors else "valid"
validation_state(r) == IF r.errors # << >> THEN INVALID ELSE VALID

\* f"{filename},{validation_state},{json.dumps(errors)},{json.dumps(warnings)},{json.dumps(info)}\n"
log_line(filename, vstate, r) ==
    filename \o <<",">> \o vstate \o <<",">> \o json_dumps(r.errors) \o <<",">>
    \o json_dumps(r.warnings) \o <<",">> \o json_dumps(r.info) \o <<"\n">>

\* f"{filename},error,{error_str},,\n"
error_line(filename, error_str) ==
    filename \o <<",">> \o ERROR \o <<",">> \o error_str \o <<",", ",", "\n">>

HEADER == <<"F", "i", "l", "e", ",", "V", "a", "l", "i", "d", "a", "t", "i", "o", "n", " ", "S", "t", "a", "t", "e", ",", "E", "r", "r", "o", "r", "s", ",", "W", "a", "r", "n", "i", "n", "g", "s", ",", "I", "n", "f", "o", "\n">>

\* str(e) of the exceptions of the model: the nth invocation of sftp.get, the
\* decoding of the local file, open(LOG_FILE, "a"), save_to_database
GetErrorText(n) == <<"F", "a", "i", "l", "u", "r", "e", " ">> \o <<Digit(n)>>
ReadErrorText   == <<"u", "n", "e", "x", "p", "e", "c", "t", "e", "d", " ", "e", "n", "d", " ", "o", "f", " ", "d", "a", "t", "a">>
LogErrorText    == <<"P", "e", "r", "m", "i", "s", "s", "i", "o", "n", " ", "d", "e", "n", "i", "e", "d">>
DbErrorText     == <<"d", "a", "t", "a", "b", "a", "s", "e", " ", "i", "s", " ", "l", "o", "c", "k", "e", "d">>

\* the content of LOG_FILE: the chunks written, in order
RECURSIVE Render(_)
Render(chunks) ==
    IF chunks = << >> THEN << >> ELSE Head(chunks).text \o Render(Tail(chunks))

\* iteration over a text file: the lines, each with its "\n"; a last line
\* without "\n" is a line too.  LineEnds are the positions where a line ends.
LineEnds(content) ==
    {k \in 1..Len(content) : content[k] = "\n" \/ k = Len(content)}

SetMax(S) == CHOOSE x \in S : \A y \in S : y <= x
SetMin(S) == CHOOSE x \in S : \A y \in S : x <= y

LineAt(content, ends, e) ==
    SubSeq(content, SetMax({0} \cup {x \in ends : x < e}) + 1, e)

LinesBy(content, ends) ==
    [j \in 1..Cardinality(ends) |->
        LineAt(content, ends,
               CHOOSE e \in ends : Cardinality({x \in ends : x < e}) = j - 1)]

Lines(content) ==
    CHOOSE l \in {LinesBy(content, ends) : ends \in {LineEnds(content)}} : TRUE

\* generate_summary_report(log_file): next(log) skips the first line, then every
\* line counts in total_files, `"valid" in line` in valid_files, and otherwise
\* `"invalid" in line` in invalid_files
CountValid(lines) ==
    Cardinality({k \in 1..Len(lines) : Contains(lines[k], VALID)})

CountInvalid(lines) ==
    Cardinality({k \in 1..Len(lines) :
                    ~Contains(lines[k], VALID) /\ Contains(lines[k], INVALID)})

SummaryOf(lines) ==
    [done |-> TRUE,
     total_files   |-> Len(lines),
     valid_files   |-> CountValid(lines),
     invalid_files |-> CountInvalid(lines)]

generate_summary_report(content) ==
    CHOOSE r \in {SummaryOf(lines) : lines \in {Tail(Lines(content))}} : TRUE

----------------------------------------------------------------------------
(* Tasks. *)

\* safe_sftp_operation(func, max_retries) as a state machine.  status is "call"
\* (func is to be invoked with loop variable `attempt`), "returned" (return func()),
\* "raised" (the bare raise of the last attempt) or "none" (the loop ended without
\* returning: return None).  calls and outs record the invocations made so far;
\* result / error name the invocation whose value is returned / whose exception
\* is re-raised.
safe_enter(max_retries) ==
    [max_retries |-> max_retries, attempt |-> 0, calls |-> 0, outs |-> << >>,
     result |-> 0, error |-> 0,
     status |-> IF 0 < max_retries THEN "call" ELSE "none"]

\* (variant for C4: the last attempt is taken to be number max_retries)
safe_raise_last_OffByOne(st) == st.attempt = st.max_retries

\* the invocation func() of the current attempt returned (ok) or raised (~ok)
safe_raise_last(st) == st.attempt = st.max_retries - 1

safe_result(st, ok) ==
    LET n == st.calls + 1
        called == [st EXCEPT !.calls = n,
                             !.outs = Append(@, IF ok THEN "ok" ELSE "raise")]
    IN  IF ok THEN [called EXCEPT !.status = "returned", !.result = n]
        ELSE IF safe_raise_last(st)
             THEN [called EXCEPT !.status = "raised", !.error = n]
             ELSE \* next iteration of `for attempt in range(max_retries)`, or
                  \* the end of the loop and `return None`
                  [called EXCEPT !.attempt = @ + 1,
                                 !.status = IF st.attempt + 1 < st.max_retries
                                            THEN "call" ELSE "none"]

NoSafe == [max_retries |-> 0, attempt |-> 0, calls |-> 0, outs |-> << >>,
           result |-> 0, error |-> 0, status |-> "idle"]

\* a task that was not submitted yet.  runs, got, rm, validated are history:
\* times started, sftp.get returned normally, sftp.remove invocations,
\* validate_csv invocations.
NoTask == [pc |-> "none", runs |-> 0, got |-> FALSE, rm |-> 0, batch |-> 0,
           deleted |-> FALSE, op |-> NoSafe, vstate |-> << >>, err |-> << >>,
           validated |-> 0, content |-> << >>]

Tasks == DOMAIN task

Finished(t) == task[t].pc \in {"done", "raised"}
Running(t)  == task[t].pc \notin {"none", "queued", "done", "raised"}
InFlight    == {t \in Tasks : Running(t)}

Idx(n) == [k \in 1..n |-> k]

\* files[i:i + BATCH_SIZE], as the indexes of its files
BatchAt(n, at) == Slice(Idx(n), at, at + BATCH_SIZE)

InSeq(x, s) == \E k \in 1..Len(s) : s[k] = x

----------------------------------------------------------------------------
(* Initial states. *)

\* the remote directory of "par"/"seq": n files, and whether listing it raises
ListingStates ==
    {[entries |-> DirEntries(n), raises |-> b] : n \in 0..MaxFiles, b \in BOOLEAN}

\* the remote tree of "val": the directories whose listing raises
TreeStates ==
    {[failing |-> F] : F \in {G \in SUBSET RemoteDirs : Cardinality(G) <= MaxFailingDirs}}

\* LOG_FILE before a run of the validator: absent or empty, or what an earlier
\* run left there, a record under its header
StaleLog ==
    << [t |-> 0, part |-> 2,
        text |-> HEADER \o <<"z", ",">> \o VALID
                 \o <<",", "[", "]", ",", "[", "]", ",", "[", "]", "\n">>] >>

Init ==
    /\ prog \in {"par", "seq", "val", "retry"}
    /\ mainpc = "start"
    /\ closed = FALSE
    /\ files = << >>
    /\ i = 0
    /\ batches = << >>
    /\ task = << >>
    /\ remote \in (IF prog \in {"par", "seq"} THEN ListingStates
                   ELSE IF prog = "val" THEN TreeStates
                   ELSE {[entries |-> << >>, raises |-> FALSE]})
    /\ lock = 0
    /\ log \in (IF prog = "val" THEN {<< >>, StaleLog} ELSE {<< >>})
    /\ db = << >>
    /\ localfs = << >>
    /\ summary = [done |-> FALSE]
    /\ rt \in (IF prog = "retry" THEN {safe_enter(m) : m \in 0..MaxRetriesArg}
               ELSE {NoSafe})

valvars == <<lock, log, db, localfs, summary>>

----------------------------------------------------------------------------
(* safe_sftp_operation run on its own: each invocation of func returns or raises. *)

SafeCall ==
    /\ prog = "retry"
    /\ rt.status = "call"
    /\ \E ok \in BOOLEAN : rt' = safe_result(rt, ok)
    /\ UNCHANGED <<prog, mainpc, closed, files, i, batches, task, remote, valvars>>

----------------------------------------------------------------------------
(* The two fetch-and-delete programs: main and the batch loop. *)

\* ssh_client.connect / open_sftp: on an exception main ends through its handlers
Connect(p) ==
    /\ prog = p
    /\ mainpc = "start"
    /\ \E ok \in BOOLEAN : mainpc' = IF ok THEN "list" ELSE "end"
    /\ UNCHANGED <<prog, closed, files, i, batches, task, remote, valvars, rt>>

\* files = list_csv_files(sftp, REMOTE_DIRECTORY)
ListFiles(p) ==
    /\ prog = p
    /\ mainpc = "list"
    /\ files' = [k \in 1..Len(list_csv_files(remote)) |->
                    [filename |-> list_csv_files(remote)[k]]]
    /\ task' = [k \in 1..Len(list_csv_files(remote)) |-> NoTask]
    /\ i' = 0
    /\ mainpc' = "loop"
    /\ UNCHANGED <<prog, closed, batches, remote, valvars, rt>>

\* one turn of `for i in range(0, len(files), BATCH_SIZE)`: the next batch is
\* sliced and handed over, or the loop ends
BatchLoop(p) ==
    /\ prog = p
    /\ mainpc = "loop"
    /\ IF i < Len(files)
       THEN LET batch == BatchAt(Len(files), i)
            IN  /\ batches' = Append(batches, batch)
                /\ task' = [t \in Tasks |->
                              IF InSeq(t, batch)
                              THEN [task[t] EXCEPT !.pc = "queued",
                                                   !.batch = (i \div BATCH_SIZE) + 1]
                              ELSE task[t]]
                /\ mainpc' = "join"
       ELSE /\ mainpc' = "close"
            /\ UNCHANGED <<batches, task>>
    /\ UNCHANGED <<prog, closed, files, i, remote, valvars, rt>>

\* (variant for C9: the next batch is sliced without joining the workers)
BatchDone_NoJoin == TRUE

\* the batch is drained: the `with ThreadPoolExecutor` block of
\* fetch_and_delete_files_in_parallel is left (its exit joins every worker), or
\* the inner `for filename in batch` loop of fetch_and_delete_files ended
BatchDone == \A t \in Tasks : task[t].pc \in {"none", "done"}

BatchJoin(p) ==
    /\ prog = p
    /\ mainpc = "join"
    /\ BatchDone
    /\ i' = i + BATCH_SIZE
    /\ mainpc' = "loop"
    /\ UNCHANGED <<prog, closed, files, batches, task, remote, valvars, rt>>

\* sftp.close() after the loop
Close(p) ==
    /\ prog = p
    /\ mainpc = "close"
    /\ closed' = TRUE
    /\ mainpc' = "end"
    /\ UNCHANGED <<prog, files, i, batches, task, remote, valvars, rt>>

ParConnect == Connect("par")
ParList    == ListFiles("par")
ParLoop    == BatchLoop("par")
ParJoin    == BatchJoin("par")
ParClose   == Close("par")
SeqConnect == Connect("seq")
SeqList    == ListFiles("seq")
SeqLoop    == BatchLoop("seq")
SeqJoin    == BatchJoin("seq")
SeqClose   == Close("seq")

----------------------------------------------------------------------------
(* fetch_and_delete_file, and the same body inside fetch_and_delete_files. *)

\* (variant for C10: every submitted task gets a thread of its own)
PoolHasWorker_Unbounded == TRUE

\* a worker of ThreadPoolExecutor(max_workers=MAX_WORKERS) takes a queued task
\* and enters sftp.get(remote_path, local_path)
PoolHasWorker == Cardinality(InFlight) < MAX_WORKERS

ParStart(t) ==
    /\ prog = "par"
    /\ task[t].pc = "queued"
    /\ PoolHasWorker
    /\ task' = [task EXCEPT ![t].pc = "get", ![t].runs = @ + 1]
    /\ UNCHANGED <<prog, mainpc, closed, files, i, batches, remote, valvars, rt>>

\* `for filename in batch`: the next file of the batch, once the one before it
\* is through, enters sftp.get(remote_path, local_path)
SeqStart(t) ==
    /\ prog = "seq"
    /\ task[t].pc = "queued"
    /\ \A u \in Tasks : u < t => task[u].pc = "done"
    /\ task' = [task EXCEPT ![t].pc = "get", ![t].runs = @ + 1]
    /\ UNCHANGED <<prog, mainpc, closed, files, i, batches, remote, valvars, rt>>

\* what follows a normal return of sftp.get: sftp.remove(remote_path) is invoked
AfterGet(tk) == [tk EXCEPT !.got = TRUE, !.pc = "remove", !.rm = @ + 1]

\* (variant for C1: the except clause removes the remote file as well)
AfterGetRaise_Removes(tk) == [tk EXCEPT !.pc = "remove", !.rm = @ + 1]

\* what follows an exception of sftp.get: the except clause logs, the task ends
AfterGetRaise(tk) == [tk EXCEPT !.pc = "done"]

GetReturn(t) ==
    /\ prog \in {"par", "seq"}
    /\ task[t].pc = "get"
    /\ task' = [task EXCEPT ![t] = AfterGet(@)]
    /\ UNCHANGED <<prog, mainpc, closed, files, i, batches, remote, valvars, rt>>

GetRaise(t) ==
    /\ prog \in {"par", "seq"}
    /\ task[t].pc = "get"
    /\ task' = [task EXCEPT ![t] = AfterGetRaise(@)]
    /\ UNCHANGED <<prog, mainpc, closed, files, i, batches, remote, valvars, rt>>

\* sftp.remove returned: the file is gone from the remote directory
RemoveReturn(t) ==
    /\ prog \in {"par", "seq"}
    /\ task[t].pc = "remove"
    /\ task' = [task EXCEPT ![t].pc = "done", ![t].deleted = TRUE]
    /\ UNCHANGED <<prog, mainpc, closed, files, i, batches, remote, valvars, rt>>

\* sftp.remove raised: the except clause logs, the task ends
RemoveRaise(t) ==
    /\ prog \in {"par", "seq"}
    /\ task[t].pc = "remove"
    /\ task' = [task EXCEPT ![t].pc = "done"]
    /\ UNCHANGED <<prog, mainpc, closed, files, i, batches, remote, valvars, rt>>

----------------------------------------------------------------------------
(* sftp-csv-validator.py: fetch_and_validate_sftp_files and start_validation. *)

\* (variant for C15: the log is opened with "a", the header follows what is there)
WriteHeader_Appends(content) == Append(content, [t |-> 0, part |-> 2, text |-> HEADER])

\* with open(LOG_FILE, "w") as log: log.write(header): whatever the file held
\* is gone, the header is its content
WriteHeader(content) == << [t |-> 0, part |-> 2, text |-> HEADER] >>

\* open(LOG_FILE, "w") and the header line: the file is truncated
ValHeader ==
    /\ prog = "val"
    /\ mainpc = "start"
    /\ log' = WriteHeader(log)
    /\ mainpc' = "connect"
    /\ UNCHANGED <<prog, closed, files, i, batches, task, remote,
                   lock, db, localfs, summary, rt>>

\* create_sftp_connection(): an exception leaves fetch_and_validate_sftp_files
\* before its try block and reaches the handler of start_validation
ValConnect ==
    /\ prog = "val"
    /\ mainpc = "connect"
    /\ \E ok \in BOOLEAN : mainpc' = IF ok THEN "roots" ELSE "failed"
    /\ UNCHANGED <<prog, closed, files, i, batches, task, remote, valvars, rt>>

\* `for root_dir in ROOT_DIRECTORIES`: list_files_recursive(sftp, root_dir) is
\* entered; its listings go over the session the tasks use
ValListBegin ==
    /\ prog = "val"
    /\ mainpc = "roots"
    /\ i < Len(ROOT_DIRECTORIES)
    /\ mainpc' = "listing"
    /\ UNCHANGED <<prog, closed, files, i, batches, task, remote, valvars, rt>>

\* list_files_recursive returned: executor.submit(process_file, ...) for each
\* file of this root; after the last root the main thread waits for the results
ValListEnd ==
    /\ prog = "val"
    /\ mainpc = "listing"
    /\ LET found == list_files_recursive(remote.failing, ROOT_DIRECTORIES[i + 1])
       IN  /\ files' = files \o found
           /\ task' = task \o [k \in 1..Len(found) |-> [NoTask EXCEPT !.pc = "queued"]]
    /\ i' = i + 1
    /\ mainpc' = IF i + 1 < Len(ROOT_DIRECTORIES) THEN "roots" ELSE "wait"
    /\ UNCHANGED <<prog, closed, batches, remote, valvars, rt>>

\* `for task in tasks: task.result()` and the exit of the `with` block, which
\* joins every worker (shutdown(wait=True)) whether or not a result raised
\* (variant for C7: a result that raised ends the wait, the workers are not joined)
AllFinished_FirstRaise ==
    \/ \A t \in Tasks : Finished(t)
    \/ \E t \in Tasks : task[t].pc = "raised"

\* (variant for C18: the pool is not joined on leaving the block)
AllFinished_NoJoin == TRUE

AllFinished == \A t \in Tasks : Finished(t)

ValWaitAll ==
    /\ prog = "val"
    /\ mainpc = "wait"
    /\ AllFinished
    /\ mainpc' = "close"
    /\ UNCHANGED <<prog, closed, files, i, batches, task, remote, valvars, rt>>

\* finally: sftp.close(); transport.close().  A result that raised goes on to
\* the handler of start_validation, otherwise the function returns
ValClose ==
    /\ prog = "val"
    /\ mainpc = "close"
    /\ closed' = TRUE
    /\ mainpc' = IF \E t \in Tasks : task[t].pc = "raised" THEN "failed" ELSE "returned"
    /\ UNCHANGED <<prog, files, i, batches, task, remote, valvars, rt>>

\* summary = generate_summary_report(LOG_FILE) in start_validation
ValSummary ==
    /\ prog = "val"
    /\ mainpc = "returned"
    /\ summary' = generate_summary_report(Render(log))
    /\ mainpc' = "end"
    /\ UNCHANGED <<prog, closed, files, i, batches, task, remote,
                   lock, log, db, localfs, rt>>

----------------------------------------------------------------------------
(* sftp-csv-validator.py: process_file. *)

local_path(t) == PathJoin(LOCAL_DIRECTORY, files[t].filename)

\* where process_file stands once safe_sftp_operation has moved: inside
\* sftp.get again, past it, or in the except clause with the error re-raised
AfterSafe(tk, op) ==
    CASE op.status = "call"   -> [tk EXCEPT !.op = op, !.pc = "get"]
      [] op.status = "raised" -> [tk EXCEPT !.op = op, !.pc = "elock",
                                            !.err = GetErrorText(op.error)]
      [] OTHER                -> [tk EXCEPT !.op = op, !.pc = "read"]

\* max_retries of safe_sftp_operation, left at its default by process_file
DEFAULT_MAX_RETRIES == 3

\* a worker of the pool takes the task: process_file enters safe_sftp_operation
ValPoolHasWorker == Cardinality(InFlight) < DefaultWorkers

ValStart(t) ==
    /\ prog = "val"
    /\ task[t].pc = "queued"
    /\ ValPoolHasWorker
    /\ task' = [task EXCEPT
                  ![t] = AfterSafe([@ EXCEPT !.runs = @ + 1],
                                   safe_enter(DEFAULT_MAX_RETRIES))]
    /\ UNCHANGED <<prog, mainpc, closed, files, i, batches, remote, valvars, rt>>

\* sftp.get(remote_path, local_path) returned: the local file holds the content
ValGetReturn(t) ==
    /\ prog = "val"
    /\ task[t].pc = "get"
    /\ task' = [task EXCEPT
                  ![t] = AfterSafe([@ EXCEPT !.got = TRUE], safe_result(@.op, TRUE))]
    /\ localfs' = [p \in DOMAIN localfs \cup {local_path(t)} |->
                     IF p = local_path(t) THEN RemoteContent(files[t].path)
                     ELSE localfs[p]]
    /\ UNCHANGED <<prog, mainpc, closed, files, i, batches, remote,
                   lock, log, db, summary, rt>>

\* sftp.get raised
ValGetRaise(t) ==
    /\ prog = "val"
    /\ task[t].pc = "get"
    /\ task' = [task EXCEPT ![t] = AfterSafe(@, safe_result(@.op, FALSE))]
    /\ UNCHANGED <<prog, mainpc, closed, files, i, batches, remote, valvars, rt>>

\* open(local_path, encoding="utf-8").read(), validate_csv, validation_state;
\* a missing file or a truncated UTF-8 sequence raises
Readable(p) == p \in DOMAIN localfs /\ \A k \in 1..Len(localfs[p]) : localfs[p][k] # "xC3"

\* (variant for C13: a validation that finds errors is tried again)
AfterRead_Revalidates(tk, p) ==
    IF Readable(p)
    THEN IF validate_csv(localfs[p]).errors # << >>
         THEN [tk EXCEPT !.validated = @ + 1]
         ELSE [tk EXCEPT !.validated = @ + 1, !.vstate = VALID,
                         !.content = localfs[p], !.pc = "lock"]
    ELSE [tk EXCEPT !.err = ReadErrorText, !.pc = "elock"]

AfterRead(tk, p) ==
    IF Readable(p)
    THEN [tk EXCEPT !.validated = @ + 1,
                    !.vstate = validation_state(validate_csv(localfs[p])),
                    !.content = localfs[p],
                    !.pc = "lock"]
    ELSE [tk EXCEPT !.err = ReadErrorText, !.pc = "elock"]

ValRead(t) ==
    /\ prog = "val"
    /\ task[t].pc = "read"
    /\ task' = [task EXCEPT ![t] = AfterRead(@, local_path(t))]
    /\ UNCHANGED <<prog, mainpc, closed, files, i, batches, remote, valvars, rt>>

\* the line the task is about to write
LineOf(t) ==
    IF task[t].pc \in {"lock", "in"}
    THEN log_line(files[t].filename, task[t].vstate, validate_csv(task[t].content))
    ELSE error_line(files[t].filename, task[t].err)

Half(s) == Len(s) \div 2

\* (variant for C5: the log is written without looking at the lock)
LockFree_Ignored == TRUE

\* `with log_lock:` is entered when the lock is free
LockFree == lock = 0

\* with log_lock: with open(LOG_FILE, "a") as log: log.write(log_line), first
\* part: the lock is taken, the file opened and the head of the line reaches
\* the file; or open raises, the lock is released and the exception goes to the
\* except clause (try block) or out of process_file (except clause)
ValLogEnter(t) ==
    /\ prog = "val"
    /\ task[t].pc \in {"lock", "elock"}
    /\ LockFree
    /\ \/ /\ lock' = t
          /\ log' = Append(log, [t |-> t, part |-> 1,
                                 text |-> SubSeq(LineOf(t), 1, Half(LineOf(t)))])
          /\ task' = [task EXCEPT ![t].pc = IF @ = "lock" THEN "in" ELSE "ein"]
       \/ /\ task' = [task EXCEPT
                        ![t] = IF @.pc = "lock"
                               THEN [@ EXCEPT !.err = LogErrorText, !.pc = "elock"]
                               ELSE [@ EXCEPT !.pc = "raised"]]
          /\ UNCHANGED <<lock, log>>
    /\ UNCHANGED <<prog, mainpc, closed, files, i, batches, remote,
                   db, localfs, summary, rt>>

\* second part: the rest of the line reaches the file, the file is closed and
\* the lock released; the try block goes on to save_to_database, the except
\* clause to its print and the end of process_file
ValLogExit(t) ==
    /\ prog = "val"
    /\ task[t].pc \in {"in", "ein"}
    /\ log' = Append(log, [t |-> t, part |-> 2,
                           text |-> SubSeq(LineOf(t), Half(LineOf(t)) + 1,
                                           Len(LineOf(t)))])
    /\ lock' = IF lock = t THEN 0 ELSE lock
    /\ task' = [task EXCEPT ![t].pc = IF @ = "in" THEN "db" ELSE "done"]
    /\ UNCHANGED <<prog, mainpc, closed, files, i, batches, remote,
                   db, localfs, summary, rt>>

\* save_to_database(filename, validation_state, errors, warnings, info): the row
\* is committed, or sqlite raises and the except clause of process_file runs
ValDb(t) ==
    /\ prog = "val"
    /\ task[t].pc = "db"
    /\ \/ /\ db' = Append(db, [t |-> t, filename |-> files[t].filename,
                               state |-> task[t].vstate])
          /\ task' = [task EXCEPT ![t].pc = "done"]
       \/ /\ task' = [task EXCEPT ![t].err = DbErrorText, ![t].pc = "elock"]
          /\ UNCHANGED db
    /\ UNCHANGED <<prog, mainpc, closed, files, i, batches, remote,
                   lock, log, localfs, summary, rt>>

----------------------------------------------------------------------------

Next ==
    \/ SafeCall
    \/ ParConnect \/ ParList \/ ParLoop \/ ParJoin \/ ParClose
    \/ SeqConnect \/ SeqList \/ SeqLoop \/ SeqJoin \/ SeqClose
    \/ \E t \in Tasks : ParStart(t)
    \/ \E t \in Tasks : SeqStart(t)
    \/ \E t \in Tasks : GetReturn(t)
    \/ \E t \in Tasks : GetRaise(t)
    \/ \E t \in Tasks : RemoveReturn(t)
    \/ \E t \in Tasks : RemoveRaise(t)
    \/ ValHeader \/ ValConnect \/ ValListBegin \/ ValListEnd
    \/ ValWaitAll \/ ValClose \/ ValSummary
    \/ \E t \in Tasks : ValStart(t)
    \/ \E t \in Tasks : ValGetReturn(t)
    \/ \E t \in Tasks : ValGetRaise(t)
    \/ \E t \in Tasks : ValRead(t)
    \/ \E t \in Tasks : ValLogEnter(t)
    \/ \E t \in Tasks : ValLogExit(t)
    \/ \E t \in Tasks : ValDb(t)

Spec == Init /\ [][Next]_vars

----------------------------------------------------------------------------
(* Properties. *)

FetchDelete == prog \in {"par", "seq"}

\* the main thread is past its wait for the tasks
MainPast ==
    \/ FetchDelete /\ mainpc \in {"close", "end"}
    \/ prog = "val" /\ mainpc \in {"close", "returned", "failed", "end"}

\* C1: in both fetch-and-delete programs sftp.remove is invoked for a file only
\* after sftp.get of that file returned normally; a file whose get raised is
\* never the subject of a remove.
C1_DeleteOnlyAfterFetch ==
    FetchDelete =>
        \A t \in Tasks :
            /\ task[t].rm > 0 => task[t].got
            /\ task[t].pc = "remove" => task[t].got
            /\ task[t].deleted => task[t].got

\* C1 witness: in the thread-pool program one file was fetched and its remove
\* invoked, while the get of another file raised and that task ended with no remove.
C1_Witness ==
    /\ prog = "par"
    /\ \E t, u \in Tasks :
          /\ task[t].got /\ task[t].rm = 1
          /\ task[u].pc = "done" /\ ~task[u].got /\ task[u].rm = 0

\* the complete lines of LOG_FILE written by task t
Records(t) == {k \in 1..Len(log) : log[k].t = t /\ log[k].part = 2}

\* C2: when fetch_and_validate_sftp_files returns, every descriptor returned by
\* the discovery has exactly one outcome record in the log.
C2_ExactlyOneRecord ==
    (prog = "val" /\ mainpc \in {"returned", "end"}) =>
        \A t \in Tasks : Cardinality(Records(t)) = 1

Commas(line) == {k \in 1..Len(line) : line[k] = ","}

\* the state field of a record: what stands between its first two commas
StateField(line) ==
    IF Cardinality(Commas(line)) < 2 THEN << >>
    ELSE LET c1 == SetMin(Commas(line))
             c2 == SetMin(Commas(line) \ {c1})
         IN  SubSeq(line, c1 + 1, c2 - 1)

RecordsWithState(st) ==
    LET Count(lines) == Cardinality({k \in 1..Len(lines) : StateField(lines[k]) = st})
    IN  CHOOSE n \in {Count(lines) : lines \in {Tail(Lines(Render(log)))}} : TRUE

\* C3: the summary's counts are the numbers of records of each state, and
\* valid + invalid + error is the number of files discovered.
C3_SummaryCounts ==
    (prog = "val" /\ summary.done) =>
        /\ summary.valid_files = RecordsWithState(VALID)
        /\ summary.invalid_files = RecordsWithState(INVALID)
        /\ summary.valid_files + summary.invalid_files + RecordsWithState(ERROR)
              = summary.total_files
        /\ summary.total_files = Len(files)

AllRaise(outs) == \A k \in 1..Len(outs) : outs[k] = "raise"

\* what C4 says of one run of safe_sftp_operation, in its state st
SafeContract(st) ==
    /\ st.calls = Len(st.outs)
    /\ st.calls <= st.max_retries
    /\ \A k \in 1..(Len(st.outs) - 1) : st.outs[k] = "raise"
    /\ (st.outs # << >> /\ st.outs[Len(st.outs)] = "ok")
          <=> st.status = "returned"
    /\ st.status = "returned" => st.result = st.calls
    /\ (st.max_retries >= 1 /\ st.calls = st.max_retries /\ AllRaise(st.outs))
          <=> st.status = "raised"
    /\ st.status = "raised" => st.error = st.max_retries

\* C4: safe_sftp_operation invokes func at most max_retries times, none after
\* the first invocation that returns, whose result it returns; when all
\* max_retries invocations raise it raises the error of the last one (there is
\* no attempt max_retries + 1).  Checked for every max_retries in
\* 0..MaxRetriesArg run on its own, and for the fetch of every process_file.
C4_RetryCap ==
    /\ prog = "retry" => SafeContract(rt)
    /\ prog = "val" =>
          \A t \in Tasks : task[t].op.status # "idle" => SafeContract(task[t].op)

\* C4 witness: max_retries = 3 and all three invocations raised: the error of
\* the third is raised, and there is no fourth invocation.
C4_Witness ==
    /\ prog = "retry"
    /\ rt.max_retries = 3 /\ rt.outs = <<"raise", "raise", "raise">>
    /\ rt.status = "raised" /\ rt.error = 3

InSection == {t \in Tasks : task[t].pc \in {"in", "ein"}}

\* the lines task t may have written
LinesOfTask(t) ==
    {log_line(files[t].filename, task[t].vstate, validate_csv(task[t].content)),
     error_line(files[t].filename, task[t].err)}

\* C5: at most one thread at a time is inside the open-append-write section,
\* and every line of the log of the run (the log as it is from the header write
\* on) is the complete line of one task (the last line may be the head of the
\* line the thread inside the section is writing).
C5_LogMutualExclusion ==
    prog = "val" =>
        /\ Cardinality(InSection) <= 1
        /\ \A t \in InSection : lock = t
        /\ \A lines \in {Lines(Render(log))} :
              \A k \in 1..Len(lines) :
                   \/ mainpc = "start"
                   \/ lines[k] = HEADER
                   \/ \E t \in Tasks : lines[k] \in LinesOfTask(t)
                   \/ /\ k = Len(lines)
                      /\ \E t \in InSection :
                            lines[k] = SubSeq(LineOf(t), 1, Half(LineOf(t)))

\* C5 witness: one thread is inside the section, on the success path, with half
\* of its line written, while another waits for the lock on the error path.
C5_Witness ==
    /\ prog = "val"
    /\ \E t, u \in Tasks :
          /\ task[t].pc = "in" /\ lock = t
          /\ task[u].pc = "elock"
          /\ log[Len(log)].t = t /\ log[Len(log)].part = 1

FetchExhausted(t) == task[t].op.status = "raised"

\* C6: when the fetch fails on every attempt, process_file records an outcome
\* with state error carrying the error text, validate_csv is never called for
\* the file and no remote delete is issued.
C6_FetchExhaustion ==
    prog = "val" =>
        \A t \in Tasks :
            FetchExhausted(t) =>
                /\ task[t].validated = 0
                /\ task[t].rm = 0
                /\ Finished(t) =>
                      /\ Cardinality(Records(t)) = 1
                      /\ \E lines \in {Lines(Render(log))} :
                            \E k \in 1..Len(lines) :
                                lines[k] = error_line(files[t].filename,
                                                      GetErrorText(DEFAULT_MAX_RETRIES))

\* C7: a failure in one file's task never keeps a sibling from running to its
\* end: once the main thread is past the tasks, every listed file's task was
\* started once and ran to its end, in all three programs.
C7_FailureIsolation ==
    MainPast => \A t \in Tasks : Finished(t) /\ task[t].runs = 1

\* C7 witness: in the validator a later task ran to its end although an earlier
\* one let an exception escape its error handler.
C7_Witness ==
    /\ prog = "val" /\ mainpc = "failed"
    /\ \E t, u \in Tasks :
          /\ t < u
          /\ task[t].pc = "raised"
          /\ task[u].pc = "done" /\ task[u].runs = 1

\* the parent of a directory of the tree (a root is its own parent)
ParentDir(d) == IF d \in {DirAX, DirAY} THEN DirA ELSE d

\* the listing of d and of the directories above it up to the root succeed
Listable(d) == d \notin remote.failing /\ ParentDir(d) \notin remote.failing

\* the paths of the regular files of directory d that pass the filter
MatchingIn(d) ==
    {PathJoin(d, TreeEntries(d)[k].filename) :
        k \in {j \in 1..Len(TreeEntries(d)) :
                 /\ ~TreeEntries(d)[j].isdir
                 /\ EndsWith(TreeEntries(d)[j].filename, CFG_FILE_EXTENSION)
                 /\ Contains(PathJoin(d, TreeEntries(d)[j].filename), KEYWORD)}}

RootsListed == {ROOT_DIRECTORIES[k] : k \in 1..i}

\* C8: a directory whose listing raises contributes no descriptor, and every
\* matching file of the directories that list successfully, siblings after the
\* failing one and other roots included, is returned, once.
C8_ListingFailureScoped ==
    prog = "val" =>
        /\ {files[k].path : k \in 1..Len(files)} =
              UNION {MatchingIn(d) :
                        d \in {e \in RemoteDirs :
                                 Listable(e) /\ ParentDir(e) \in RootsListed}}
        /\ \A j, k \in 1..Len(files) : files[j].path = files[k].path => j = k

\* C8 witness: the listing of the first subdirectory of /a raised, and the file
\* of the subdirectory after it and the file of /b were returned.
C8_Witness ==
    /\ prog = "val" /\ remote.failing = {DirAX} /\ i = Len(ROOT_DIRECTORIES)
    /\ Len(files) = 2
    /\ files[1].path = PathJoin(DirAY, basename(files[1].path))
    /\ files[2].path = PathJoin(DirB, basename(files[2].path))

RECURSIVE Flatten(_)
Flatten(ss) == IF ss = << >> THEN << >> ELSE Head(ss) \o Flatten(Tail(ss))

Ceil(n, b) == (n + b - 1) \div b

\* the batch a task was handed over in (0: none yet)
BatchOf(t) ==
    IF \E k \in 1..Len(batches) : InSeq(t, batches[k])
    THEN CHOOSE k \in 1..Len(batches) : InSeq(t, batches[k])
    ELSE 0

\* C9: the batch loop dispatches ceil(n / BATCH_SIZE) batches that partition the
\* listed files in order, each but the last of exactly BATCH_SIZE files, and no
\* task of a batch starts before every task of the batches before it finished.
C9_Batches ==
    FetchDelete =>
        /\ Flatten(batches) = Idx(Len(Flatten(batches)))
        /\ \A k \in 1..Len(batches) :
              /\ Len(batches[k]) >= 1
              /\ Len(batches[k]) <= BATCH_SIZE
              /\ k < Len(batches) => Len(batches[k]) = BATCH_SIZE
        /\ Len(batches) <= Ceil(Len(files), BATCH_SIZE)
        /\ mainpc \in {"close", "end"} /\ files # << >> =>
              /\ Len(batches) = Ceil(Len(files), BATCH_SIZE)
              /\ Flatten(batches) = Idx(Len(files))
        /\ \A t, u \in Tasks :
              /\ task[u].runs > 0 => BatchOf(u) > 0
              /\ (task[u].runs > 0 /\ 0 < BatchOf(t) /\ BatchOf(t) < BatchOf(u))
                    => task[t].pc = "done"

\* C9 witness: the thread-pool program dispatched three batches, the first two
\* of BATCH_SIZE files and a shorter last one, and is through.
C9_Witness ==
    /\ prog = "par" /\ mainpc = "end"
    /\ Len(batches) = 3
    /\ Len(batches[1]) = BATCH_SIZE /\ Len(batches[2]) = BATCH_SIZE
    /\ Len(batches[3]) < BATCH_SIZE

\* C10: the tasks started and not finished never outnumber the workers of the
\* pool, whatever the size of the batch, and one task is executed per file.
C10_WorkerBudget ==
    /\ prog = "par" => Cardinality(InFlight) <= MAX_WORKERS
    /\ prog = "val" => Cardinality(InFlight) <= DefaultWorkers
    /\ \A t \in Tasks : task[t].runs <= 1
    /\ \A t \in Tasks : Finished(t) => task[t].runs = 1
    /\ (prog = "par" /\ mainpc = "loop") =>
          \A t \in Tasks : BatchOf(t) > 0 => task[t].runs = 1

\* C10 witness: a batch of more files than workers, with every worker busy and
\* a task of the batch still queued.
C10_Witness ==
    /\ prog = "par"
    /\ Len(batches) >= 1
    /\ Len(batches[Len(batches)]) > MAX_WORKERS
    /\ Cardinality(InFlight) = MAX_WORKERS
    /\ \E t \in Tasks : task[t].pc = "queued"

FoundPaths == {files[k].path : k \in 1..Len(files)}

\* C11: a non-directory entry is returned iff its name ends with the configured
\* extension and contains the configured keyword, and no directory entry is
\* returned as a file.
C11_FilterByName ==
    prog = "val" =>
        \A d \in {e \in RemoteDirs : Listable(e) /\ ParentDir(e) \in RootsListed} :
            \A k \in 1..Len(TreeEntries(d)) :
                LET entry == TreeEntries(d)[k]
                    remote_path == PathJoin(d, entry.filename)
                IN  IF entry.isdir THEN remote_path \notin FoundPaths
                    ELSE remote_path \in FoundPaths
                            <=> /\ EndsWith(entry.filename, CFG_FILE_EXTENSION)
                                /\ Contains(entry.filename, KEYWORD)

\* C12: once create_sftp_connection has succeeded (only then is the session
\* ever closed), fetch_and_validate_sftp_files returns normally and the run ends
\* with the summary computed; the run never ends in the except clause of
\* start_validation.
C12_SummaryReported ==
    (prog = "val" /\ closed) =>
        /\ mainpc \in {"returned", "end"}
        /\ mainpc = "end" => summary.done

\* the try block of process_file of task t is past its log write
PastTryLog(t) ==
    \/ task[t].pc = "db"
    \/ task[t].err = DbErrorText
    \/ \E k \in 1..Len(db) : db[k].t = t

\* C13: validate_csv is invoked at most once per file, after the one fetch that
\* returned and with no fetch or validation after it; a validation that finds
\* errors gives the state invalid, and the record written for it is the invalid
\* line with the validator's error list.
C13_ValidationOnce ==
    prog = "val" =>
        \A t \in Tasks :
            /\ task[t].validated <= 1
            /\ task[t].validated = 1 =>
                  /\ task[t].op.status = "returned"
                  /\ task[t].op.result = task[t].op.calls
                  /\ task[t].pc \notin {"queued", "get", "read"}
                  /\ task[t].vstate = validation_state(validate_csv(task[t].content))
                  /\ (task[t].vstate = INVALID) = (validate_csv(task[t].content).errors # << >>)
            /\ (task[t].validated = 1 /\ task[t].vstate = INVALID /\ PastTryLog(t)) =>
                  \E lines \in {Lines(Render(log))} :
                      \E k \in 1..Len(lines) :
                          lines[k] = log_line(files[t].filename, INVALID,
                                              validate_csv(task[t].content))

\* C13 witness: a blank file was fetched at the second attempt, validated once
\* with errors, and its invalid record is in the log and in the database.
C13_Witness ==
    /\ prog = "val"
    /\ \E t \in Tasks :
          /\ task[t].pc = "done" /\ task[t].validated = 1
          /\ task[t].vstate = INVALID
          /\ task[t].op.outs = <<"raise", "ok">>
          /\ \E k \in 1..Len(db) : db[k].t = t /\ db[k].state = INVALID

\* the states of the complete log lines written by task t
LoggedStates(t) ==
    {StateField(log[k - 1].text \o log[k].text) : k \in Records(t)}

\* C14: when fetch_and_validate_sftp_files has returned, every file has a log line and a database row with
\* the same filename and the same state, whichever of valid, invalid and error
\* the state is.
C14_BothSinks ==
    (prog = "val" /\ mainpc \in {"returned", "end"}) =>
        \A t \in Tasks :
            /\ LoggedStates(t) # {}
            /\ \A st \in LoggedStates(t) :
                  \E k \in 1..Len(db) :
                      /\ db[k].filename = files[t].filename
                      /\ db[k].state = st

HeaderChunk == [t |-> 0, part |-> 2, text |-> HEADER]

\* the log of a run in progress: the header line first (the content starts
\* with it, "\n" included), then only what tasks wrote
HeaderFirst ==
    /\ Len(log) >= 1
    /\ log[1] = HeaderChunk
    /\ \A content \in {Render(log)} :
          /\ Len(content) >= Len(HEADER)
          /\ SubSeq(content, 1, Len(HEADER)) = HEADER
    /\ \A k \in 2..Len(log) : log[k].t \in Tasks

\* from the header write on the log only grows at its end
AppendOnly ==
    (prog = "val" /\ mainpc # "start") =>
        /\ Len(log') >= Len(log)
        /\ SubSeq(log', 1, Len(log)) = log

\* C15: the header is written before any task is submitted; from then on the
\* first line of the log is the header, every record comes after it, and no
\* record is lost, the truncating write being over before the first record.
C15_HeaderFirst ==
    /\ [](prog = "val" => /\ mainpc = "start" => task = << >>
                          /\ mainpc # "start" => HeaderFirst)
    /\ [][AppendOnly]_vars

\* C15 witness: the run is over, and the log is the header followed by the
\* complete records of two tasks.
C15_Witness ==
    /\ prog = "val" /\ mainpc = "end"
    /\ log[1] = HeaderChunk
    /\ \E t, u \in Tasks : t # u /\ Records(t) # {} /\ Records(u) # {}

\* the threads that are inside an operation on the sftp session: the tasks
\* inside sftp.get or sftp.remove, and the main thread of the validator inside
\* the listings of list_files_recursive
InRemoteOp ==
    {t \in Tasks : task[t].pc \in {"get", "remove"}}
    \cup (IF prog = "val" /\ mainpc = "listing" THEN {0} ELSE {})

\* C16: at no moment are two remote operations (listing, fetch, delete) in
\* progress on the one sftp session.
C16_ExclusiveSession == Cardinality(InRemoteOp) <= 1

\* the remote delete of task t failed after its fetch succeeded, and the task
\* has given the delete up
RemoveGivenUp(t) ==
    FetchDelete /\ task[t].pc = "done" /\ task[t].got /\ ~task[t].deleted

\* C17: a delete that fails after a successful fetch leaves the file counted as
\* fetched and lets no exception out of the task, and the delete is tried again
\* under the retry policy before it is given up.
C17_DeleteFailure ==
    \A t \in Tasks :
        RemoveGivenUp(t) =>
            /\ task[t].got
            /\ task[t].pc # "raised"
            /\ task[t].rm > 1

\* C18: sftp.close() happens only when every submitted task has finished, on
\* the normal path and on the path where a task's result raises; no thread is
\* inside a fetch, a delete or a listing when the session is closed or about to
\* be, and none enters one afterwards.
C18_CloseAfterTasks ==
    (closed \/ mainpc = "close") =>
        /\ \A t \in Tasks : Finished(t)
        /\ InRemoteOp = {}

\* C18 witness: in the validator the session is closed on the path where a
\* task's result raised, with three tasks submitted and all of them finished.
C18_Witness ==
    /\ prog = "val" /\ closed /\ mainpc = "failed"
    /\ Len(task) = 3
    /\ \E t \in Tasks : task[t].pc = "raised"
    /\ \E t \in Tasks : task[t].pc = "done" /\ task[t].got

\* safe_sftp_operation has returned to its caller without an exception
ReturnedNormally(st) == st.status \in {"returned", "none"}

\* C19: for every max_retries, safe_sftp_operation returns normally only if an
\* invocation of func returned normally, and process_file reads and validates
\* a local file only after its fetch succeeded in this run.
C19_ReturnMeansPerformed ==
    /\ prog = "retry" =>
          (ReturnedNormally(rt) => \E k \in 1..Len(rt.outs) : rt.outs[k] = "ok")
    /\ prog = "val" =>
          \A t \in Tasks :
              /\ ReturnedNormally(task[t].op) => task[t].got
              /\ (task[t].pc = "read" \/ task[t].validated > 0) => task[t].got

\* C20: distinct descriptors of one run have distinct local paths, and the
\* content a task validates is the content of its own remote file.
C20_DistinctLocalPaths ==
    prog = "val" =>
        /\ \A t, u \in Tasks : t # u => local_path(t) # local_path(u)
        /\ \A t \in Tasks :
              task[t].validated > 0 => task[t].content = RemoteContent(files[t].path)

=============================================================================
